---- MODULE Spec2Model ----
(***************************************************************************)
(* Contact manager, remote variant: Model (js/Model.js), View (js/View.js), *)
(* Controller (js/Controller.js) running in one browser page, and the HTTP  *)
(* API server (js/app.js) over the contacts table.                          *)
(*                                                                          *)
(* Every async Model operation is two steps of the page's event loop: the   *)
(* part up to `await fetch(...)`, which puts a request in flight, and the   *)
(* continuation that runs when the response (or a network error) arrives.   *)
(* Between the two the server handles the request in one step (every route  *)
(* is a single SQL statement).                                              *)
(*                                                                          *)
(* Text is a sequence of one-character strings, so that toLowerCase, trim   *)
(* and includes are computed.  A contact id is the decimal string of the    *)
(* clock value at creation; the clock is read only there, so it is kept as  *)
(* the last value read, and a read returns that value again or the next.    *)
(* The modal's visibility is left out: no handler reads it.                 *)
(***************************************************************************)
EXTENDS Integers, Sequences, FiniteSets, TLC

\* ------------------------------------------------------------------ bounds
MaxRequests == 3    \* requests issued in one run

\* ------------------------------------------------------------------ text
LowerChar(c) ==
    CASE c = "A" -> "a"
      [] c = "B" -> "b"
      [] OTHER -> c

ToLowerCase(s) == [i \in 1..Len(s) |-> LowerChar(s[i])]

RECURSIVE TrimStart(_)
TrimStart(s) ==
    IF s # <<>> /\ Head(s) = " " THEN TrimStart(Tail(s)) ELSE s

RECURSIVE TrimEnd(_)
TrimEnd(s) ==
    IF s # <<>> /\ s[Len(s)] = " " THEN TrimEnd(SubSeq(s, 1, Len(s) - 1)) ELSE s

Trim(s) == TrimEnd(TrimStart(s))

\* String.prototype.includes: t occurs in s as a contiguous run ("" always does)
Includes(s, t) ==
    \E i \in 0..(Len(s) - Len(t)) : SubSeq(s, i + 1, i + Len(t)) = t

\* ------------------------------------------------------------------ inputs
\* What the user types into the form (name, email, phone): one set of values
\* for a new contact, those or others when changing one, and in both cases a
\* form with the name left empty, which the submit handler must reject.
Ana == [name |-> <<"A", "n">>, email |-> <<"a", "@">>, phone |-> <<"5", "A">>]
Bo == [name |-> <<"b", "o">>, email |-> <<"B", "@">>, phone |-> <<"5", "5">>]
Nameless == [name |-> <<>>, email |-> <<"a", "@">>, phone |-> <<"5">>]

NewForms == {Ana, Nameless}
EditForms == {Ana, Bo, Nameless}

\* what the form can hold when it is submitted with `id` in its hidden field
Forms(id) == IF id = "" THEN NewForms ELSE EditForms

\* What the user types into the search box while requests come and go
SearchTexts == { <<" ", "B", "@">> }

\* Collections and search texts for the search on its own
SearchContacts ==
    { [id |-> "1", name |-> <<"A", "n">>, email |-> <<"a", "@">>, phone |-> <<"5", "A">>],
      [id |-> "2", name |-> <<"b", "o">>, email |-> <<"B", "@">>, phone |-> <<"5", "5">>],
      [id |-> "3", name |-> <<"n", " ", "B">>, email |-> <<"@", "a">>, phone |-> <<"a", "5">>] }

SearchCollections ==
    {<<>>} \cup { <<c>> : c \in SearchContacts }
           \cup { <<c, d>> : c \in SearchContacts, d \in SearchContacts }

AllSearchTexts ==
    { <<>>, <<"A">>, <<"a", "@">>, <<" ", "B", "@">>, <<"5", "A">>, <<"5", " ">>,
      <<"n", " ", "b">>, <<"z">>, <<" ">>, <<"@", " ", " ">> }

NoText == <<>>

\* ------------------------------------------------------------------ state
VARIABLES
    model,      \* the Model object: contacts, onContactListChanged
    view,       \* the View object: what the page shows and the form holds
    pending,    \* requests in flight, in the order they were issued
    table,      \* the rows of the server's contacts table, in SELECT order
    now,        \* the value Date.now() returned last (0: not read yet)
    issued,     \* how many requests have been issued so far
    last        \* the last step that rendered or moved a request

vars == <<model, view, pending, table, now, issued, last>>

NoCallback == "undefined"
ControllerCallback == "Controller.onContactListChanged"

\* the record of the last step that rendered, or issued, answered or resumed
\* a request: the operation, and where they apply the request's kind and id,
\* the response status, whether the database call erred, and how many times
\* the change callback was invoked, and for a click on a delete button what the
\* user answered to the prompt
Step(op) ==
    [op |-> op, req |-> "", id |-> "", status |-> 0, err |-> FALSE, calls |-> 0,
     confirmed |-> FALSE]

\* ------------------------------------------------------------------ View
\* a displayContacts that does not clear the list before it appends the items
DisplayContactsAppending(v, contacts) ==
    IF Len(contacts) = 0
    THEN [v EXCEPT !.listHidden = TRUE, !.emptyHidden = FALSE]
    ELSE [v EXCEPT !.contactList = v.contactList \o contacts,
                   !.listHidden = FALSE, !.emptyHidden = TRUE]

\* View.displayContacts: clear the list, then show the empty state or one
\* item per contact, in the order given
DisplayContacts(v, contacts) ==
    IF Len(contacts) = 0
    THEN [v EXCEPT !.contactList = <<>>, !.listHidden = TRUE, !.emptyHidden = FALSE]
    ELSE [v EXCEPT !.contactList = contacts, !.listHidden = FALSE, !.emptyHidden = TRUE]

\* View._resetForm
ResetForm(v) == [v EXCEPT !.inputId = ""]

\* View.closeModal
CloseModalView(v) == ResetForm(v)

\* new View(): the page as first shown, nothing rendered yet
NewView ==
    [contactList |-> <<>>, listHidden |-> FALSE, emptyHidden |-> TRUE,
     searchInput |-> NoText, inputId |-> ""]

\* ------------------------------------------------------------------ Model
\* new Model()
NewModel == [contacts |-> <<>>, onContactListChanged |-> NoCallback]

\* Model.bindContactListChanged
BindContactListChanged(m, callback) == [m EXCEPT !.onContactListChanged = callback]

\* Controller.onContactListChanged
OnContactListChanged(v, contacts) == DisplayContacts(v, contacts)

\* a _commit that notifies nobody
CommitSilent(m, v) == v

\* Model._commit: the view after the registered callback, if any, has run
Commit(m, v) ==
    IF m.onContactListChanged # NoCallback
    THEN OnContactListChanged(v, m.contacts)
    ELSE v

\* how many times _commit invokes a callback
CommitCalls(m) == IF m.onContactListChanged # NoCallback THEN 1 ELSE 0

\* every answer taken for a success, whatever its status
ResponseOkAnyAnswer(status) == status > 0

\* response.ok
ResponseOk(status) == status >= 200 /\ status <= 299

\* Date.now(): the value read last, or a later one
DateNow(t) == IF t = 0 THEN {1} ELSE {t, t + 1}

\* Date.now().toString()
NewId(t) == ToString(t)

\* this.contacts.push(contact)
PushContact(contacts, contact) == Append(contacts, contact)

\* a map that forgets to compare the id
MapEditAll(contacts, id, name, email, phone) ==
    [i \in 1..Len(contacts) |->
        [id |-> contacts[i].id, name |-> name, email |-> email, phone |-> phone]]

\* this.contacts.map(c => c.id === id ? {id: c.id, ...updatedContact} : c)
MapEdit(contacts, id, name, email, phone) ==
    [i \in 1..Len(contacts) |->
        IF contacts[i].id = id
        THEN [id |-> contacts[i].id, name |-> name, email |-> email, phone |-> phone]
        ELSE contacts[i]]

\* this.contacts.filter(c => c.id !== id)
FilterDelete(contacts, id) == SelectSeq(contacts, LAMBDA c : c.id # id)

\* Model.getContactById: the first contact with the id, or none
HasContact(contacts, id) == \E i \in 1..Len(contacts) : contacts[i].id = id

\* ------------------------------------------------------------------ server
CollectionPath == <<"api", "contacts">>
ItemPath(id) == <<"api", "contacts", id>>

\* a request body: the JSON text parses or not, and the fields it carries
\* (an absent field reads as undefined, shown here as the empty value)
EmptyBody == [wellFormed |-> TRUE, id |-> "", name |-> NoText, email |-> NoText, phone |-> NoText]

\* a prefix test that stops at '/api/'
IsItemPathLoose(path) == Len(path) >= 2 /\ path[1] = "api"

\* pathname.startsWith('/api/contacts/')
IsItemPath(path) == Len(path) >= 3 /\ path[1] = "api" /\ path[2] = "contacts"

\* pathname.split('/').pop()
PathId(path) == path[Len(path)]

\* rows matched by WHERE id = ?
AffectedRows(rows, id) == Cardinality({i \in 1..Len(rows) : rows[i].id = id})

\* INSERT INTO contacts (id, name, email, phone) VALUES (?, ?, ?, ?)
InsertRow(rows, id, name, email, phone) ==
    Append(rows, [id |-> id, name |-> name, email |-> email, phone |-> phone])

\* UPDATE contacts SET name = ?, email = ?, phone = ? WHERE id = ?
UpdateRows(rows, id, name, email, phone) ==
    [i \in 1..Len(rows) |->
        IF rows[i].id = id
        THEN [id |-> rows[i].id, name |-> name, email |-> email, phone |-> phone]
        ELSE rows[i]]

\* DELETE FROM contacts WHERE id = ?
DeleteRows(rows, id) == SelectSeq(rows, LAMBDA r : r.id # id)

Answer(status, rows, data) == [status |-> status, rows |-> rows, data |-> data]

\* a POST branch without the .catch: the rejected parse surfaces as a 500
PostContactsUncaught(body, rows, err) ==
    IF ~body.wellFormed THEN Answer(500, rows, <<>>)
    ELSE IF body.id = "" \/ body.name = NoText \/ body.email = NoText \/ body.phone = NoText
    THEN Answer(400, rows, <<>>)
    ELSE IF err THEN Answer(500, rows, <<>>)
    ELSE Answer(201, InsertRow(rows, body.id, body.name, body.email, body.phone), <<>>)

\* the POST /api/contacts branch
PostContacts(body, rows, err) ==
    IF ~body.wellFormed THEN Answer(400, rows, <<>>)
    ELSE IF body.id = "" \/ body.name = NoText \/ body.email = NoText \/ body.phone = NoText
    THEN Answer(400, rows, <<>>)
    ELSE IF err THEN Answer(500, rows, <<>>)
    ELSE Answer(201, InsertRow(rows, body.id, body.name, body.email, body.phone), <<>>)

\* a DELETE branch that does not look at affectedRows
DeleteContactRouteUnchecked(id, rows, err) ==
    IF err THEN Answer(500, rows, <<>>)
    ELSE Answer(200, DeleteRows(rows, id), <<>>)

\* the DELETE /api/contacts/{id} branch
DeleteContactRoute(id, rows, err) ==
    IF err THEN Answer(500, rows, <<>>)
    ELSE IF AffectedRows(rows, id) = 0 THEN Answer(404, rows, <<>>)
    ELSE Answer(200, DeleteRows(rows, id), <<>>)

\* the PUT /api/contacts/{id} branch
PutContactRoute(id, body, rows, err) ==
    IF ~body.wellFormed THEN Answer(400, rows, <<>>)
    ELSE IF body.name = NoText \/ body.email = NoText \/ body.phone = NoText
    THEN Answer(400, rows, <<>>)
    ELSE IF err THEN Answer(500, rows, <<>>)
    ELSE IF AffectedRows(rows, id) = 0 THEN Answer(404, rows, <<>>)
    ELSE Answer(200, UpdateRows(rows, id, body.name, body.email, body.phone), <<>>)

\* the http.createServer handler: the answer to one request over table `rows`,
\* `err` saying whether the database call reports an error
HandleRequest(method, path, body, rows, err) ==
    IF method = "OPTIONS" THEN Answer(204, rows, <<>>)
    ELSE IF path = CollectionPath
    THEN IF method = "GET"
         THEN (IF err THEN Answer(500, rows, <<>>) ELSE Answer(200, rows, rows))
         ELSE IF method = "POST" THEN PostContacts(body, rows, err)
         ELSE Answer(405, rows, <<>>)
    ELSE IF IsItemPath(path)
    THEN IF PathId(path) = "" THEN Answer(400, rows, <<>>)
         ELSE IF method = "DELETE" THEN DeleteContactRoute(PathId(path), rows, err)
         ELSE IF method = "PUT" THEN PutContactRoute(PathId(path), body, rows, err)
         ELSE Answer(405, rows, <<>>)
    ELSE Answer(404, rows, <<>>)

\* ------------------------------------------------------------------ requests
\* the fetch() call each Model operation makes
RequestMethod(r) ==
    CASE r.op = "fetch" -> "GET"
      [] r.op = "add" -> "POST"
      [] r.op = "edit" -> "PUT"
      [] r.op = "delete" -> "DELETE"

RequestPath(r) ==
    IF r.op \in {"fetch", "add"} THEN CollectionPath ELSE ItemPath(r.id)

RequestBody(r) ==
    CASE r.op = "add" ->
            [wellFormed |-> TRUE, id |-> r.id, name |-> r.name, email |-> r.email, phone |-> r.phone]
      [] r.op = "edit" ->
            [wellFormed |-> TRUE, id |-> "", name |-> r.name, email |-> r.email, phone |-> r.phone]
      [] OTHER -> EmptyBody

\* an operation suspended at its await: what it will need when it resumes
\* and where its request is
Request(op, id, name, email, phone) ==
    [op |-> op, id |-> id, name |-> name, email |-> email, phone |-> phone,
     stage |-> "sent", status |-> -1, data |-> <<>>]

RemoveAt(s, i) == SubSeq(s, 1, i - 1) \o SubSeq(s, i + 1, Len(s))

\* ------------------------------------------------------------------ Controller
\* a filter that lower-cases the phone as it does the name and the email
SearchFilterLowerPhone(contacts, searchTerm) ==
    SelectSeq(contacts, LAMBDA c :
        \/ Includes(ToLowerCase(c.name), searchTerm)
        \/ Includes(ToLowerCase(c.email), searchTerm)
        \/ Includes(ToLowerCase(c.phone), searchTerm))

\* Controller.handleSearchContact's filter over the Model's collection
SearchFilter(contacts, searchTerm) ==
    SelectSeq(contacts, LAMBDA c :
        \/ Includes(ToLowerCase(c.name), searchTerm)
        \/ Includes(ToLowerCase(c.email), searchTerm)
        \/ Includes(c.phone, searchTerm))

\* the term View.bindSearchContact hands to the handler
SearchTerm(text) == Trim(ToLowerCase(text))

\* the Model once the Controller's constructor has bound its callback
ConstructedModel == BindContactListChanged(NewModel, ControllerCallback)

\* the View once the Controller's constructor has done its initial render
ConstructedView == OnContactListChanged(NewView, ConstructedModel.contacts)

\* the requests the Controller's constructor issues
ConstructedRequests == <<>>

\* the requests of a page that is gone: the browser aborts them with the
\* document (one the server was to see has been handled by then)
Orphaned(reqs) == <<>>

\* ------------------------------------------------------------------ actions
Init ==
    /\ model = ConstructedModel
    /\ view = ConstructedView
    /\ pending = ConstructedRequests
    /\ table = <<>>
    /\ now = 0
    /\ issued = 0
    /\ last = Step("load")

\* DOMContentLoaded (first load or a reload): new Model, View and Controller
Load ==
    /\ model' = ConstructedModel
    /\ view' = ConstructedView
    /\ pending' = Orphaned(pending) \o ConstructedRequests
    /\ last' = Step("load")
    /\ UNCHANGED <<table, now, issued>>

\* click on the add-contact button: the form is reset
ClickAddContact ==
    /\ view' = ResetForm(view)
    /\ UNCHANGED <<model, pending, table, now, issued, last>>

\* click on the close button, the cancel button or the overlay
CloseModal ==
    /\ view' = CloseModalView(view)
    /\ UNCHANGED <<model, pending, table, now, issued, last>>

\* click on the edit button of a rendered item (View.bindEditContact with
\* Controller.handleGetContact)
ClickEdit ==
    \E i \in 1..Len(view.contactList) :
        LET id == view.contactList[i].id IN
        /\ view' = IF HasContact(model.contacts, id)
                   THEN [view EXCEPT !.inputId = id]
                   ELSE view
        /\ UNCHANGED <<model, pending, table, now, issued, last>>

\* a handler that deletes without asking
ConfirmAlways(answer) == TRUE

\* confirm('Are you sure you want to delete this contact?'): what the user
\* answered
Confirm(answer) == answer

\* a handler that takes every save for a new contact
SaveRouteAlwaysAdd(id) == "add"

\* Controller.handleSaveContact: which Model operation a save starts
SaveRoute(id) == IF id # "" THEN "edit" ELSE "add"

\* the form's guard in View.bindSaveContact
FormComplete(f) == f.name # NoText /\ f.email # NoText /\ f.phone # NoText

\* submit of the form (View.bindSaveContact), then Controller.handleSaveContact
\* and Model.addContact / Model.editContact up to its await
SubmitForm ==
    \E f \in Forms(view.inputId), t \in DateNow(now) :
        IF FormComplete(f)
        THEN LET route == SaveRoute(view.inputId)
                 id == IF route = "edit" THEN view.inputId ELSE NewId(t)
             IN  /\ issued < MaxRequests
                 /\ issued' = issued + 1
                 /\ now' = IF route = "add" THEN t ELSE now
                 /\ pending' = Append(pending, Request(route, id, f.name, f.email, f.phone))
                 /\ view' = CloseModalView([view EXCEPT !.searchInput = NoText])
                 /\ last' = [Step("save") EXCEPT !.req = route, !.id = id]
                 /\ UNCHANGED <<model, table>>
        ELSE UNCHANGED vars

\* click on the delete button of a rendered item (View.bindDeleteContact),
\* then Controller.handleDeleteContact and Model.deleteContact up to its await
ClickDelete ==
    \E i \in 1..Len(view.contactList), answer \in BOOLEAN :
        LET id == view.contactList[i].id IN
        /\ IF Confirm(answer)
           THEN /\ issued < MaxRequests
                /\ issued' = issued + 1
                /\ pending' = Append(pending, Request("delete", id, NoText, NoText, NoText))
                /\ last' = [Step("clickDelete") EXCEPT !.req = "delete", !.id = id,
                                                       !.confirmed = answer]
           ELSE /\ last' = [Step("clickDelete") EXCEPT !.id = id, !.confirmed = answer]
                /\ UNCHANGED <<pending, issued>>
        /\ UNCHANGED <<model, view, table, now>>

\* input event on the search box (View.bindSearchContact), then
\* Controller.handleSearchContact
InputSearchOf(texts) ==
    \E text \in texts :
        /\ view' = DisplayContacts([view EXCEPT !.searchInput = text],
                                   SearchFilter(model.contacts, SearchTerm(text)))
        /\ last' = Step("search")
        /\ UNCHANGED <<model, pending, table, now, issued>>

InputSearch == InputSearchOf(SearchTexts)

\* the server handles one request that has reached it
ServerHandle ==
    \E i \in 1..Len(pending), err \in BOOLEAN :
        LET r == pending[i]
            a == HandleRequest(RequestMethod(r), RequestPath(r), RequestBody(r), table, err)
        IN  /\ r.stage = "sent"
            /\ table' = a.rows
            /\ pending' = [pending EXCEPT ![i].stage = "answered",
                                          ![i].status = a.status,
                                          ![i].data = a.data]
            /\ last' = [Step("serve") EXCEPT !.req = r.op, !.id = r.id, !.status = a.status,
                                             !.err = err]
            /\ UNCHANGED <<model, view, now, issued>>

\* fetch() rejects for the request in the given stage
NetworkError(stage) ==
    \E i \in 1..Len(pending) :
        LET r == pending[i] IN
        /\ r.stage = stage
        /\ r.status # 0
        /\ pending' = [pending EXCEPT ![i].stage = "answered", ![i].status = 0,
                                      ![i].data = <<>>]
        /\ last' = [Step("networkError") EXCEPT !.req = r.op, !.id = r.id]
        /\ UNCHANGED <<model, view, table, now, issued>>

\* the request never reaches the server
RequestLost == NetworkError("sent")

\* the server has handled the request, and its answer never reaches the page
ResponseLost == NetworkError("answered")

\* continuations run strictly in the order their requests were issued
ResumeInIssueOrder(i, op, applied) ==
    LET r == pending[i]
        m == [model EXCEPT !.contacts = applied]
    IN  /\ i = 1
        /\ r.stage = "answered"
        /\ r.op = op
        /\ pending' = RemoveAt(pending, i)
        /\ IF ResponseOk(r.status)
           THEN /\ model' = m
                /\ view' = Commit(m, view)
                /\ last' = [Step(op) EXCEPT !.id = r.id, !.status = r.status,
                                            !.calls = CommitCalls(m)]
           ELSE /\ UNCHANGED <<model, view>>
                /\ last' = [Step(op) EXCEPT !.id = r.id, !.status = r.status]
        /\ UNCHANGED <<table, now, issued>>

\* the rest of a Model operation: `applied` is the collection its success
\* branch leaves; a failure is logged and nothing else happens
Resume(i, op, applied) ==
    LET r == pending[i]
        m == [model EXCEPT !.contacts = applied]
    IN  /\ r.stage = "answered"
        /\ r.op = op
        /\ pending' = RemoveAt(pending, i)
        /\ IF ResponseOk(r.status)
           THEN /\ model' = m
                /\ view' = Commit(m, view)
                /\ last' = [Step(op) EXCEPT !.id = r.id, !.status = r.status,
                                            !.calls = CommitCalls(m)]
           ELSE /\ UNCHANGED <<model, view>>
                /\ last' = [Step(op) EXCEPT !.id = r.id, !.status = r.status]
        /\ UNCHANGED <<table, now, issued>>

\* Model.addContact after its await
AddContactResume ==
    \E i \in 1..Len(pending) :
        LET r == pending[i] IN
        Resume(i, "add", PushContact(model.contacts,
                             [id |-> r.id, name |-> r.name, email |-> r.email, phone |-> r.phone]))

\* Model.editContact after its await
EditContactResume ==
    \E i \in 1..Len(pending) :
        LET r == pending[i] IN
        Resume(i, "edit", MapEdit(model.contacts, r.id, r.name, r.email, r.phone))

\* Model.deleteContact after its await
DeleteContactResume ==
    \E i \in 1..Len(pending) :
        Resume(i, "delete", FilterDelete(model.contacts, pending[i].id))

\* Model.fetchContacts, which nothing in the page calls: up to its await
FetchContacts ==
    /\ issued < MaxRequests
    /\ issued' = issued + 1
    /\ pending' = Append(pending, Request("fetch", "", NoText, NoText, NoText))
    /\ last' = [Step("fetch") EXCEPT !.req = "fetch"]
    /\ UNCHANGED <<model, view, table, now>>

\* Model.fetchContacts after its await
FetchContactsResume ==
    \E i \in 1..Len(pending) : Resume(i, "fetch", pending[i].data)

Next ==
    \/ Load
    \/ ClickAddContact
    \/ CloseModal
    \/ ClickEdit
    \/ SubmitForm
    \/ ClickDelete
    \/ InputSearch
    \/ ServerHandle
    \/ RequestLost
    \/ ResponseLost
    \/ AddContactResume
    \/ EditContactResume
    \/ DeleteContactResume

Spec == Init /\ [][Next]_vars

\* The same page and server when every answer the server gives is delivered
DeliveringNext ==
    \/ Load
    \/ ClickAddContact
    \/ CloseModal
    \/ ClickEdit
    \/ SubmitForm
    \/ ClickDelete
    \/ InputSearch
    \/ ServerHandle
    \/ RequestLost
    \/ AddContactResume
    \/ EditContactResume
    \/ DeleteContactResume

DeliveringSpec == Init /\ [][DeliveringNext]_vars

\* The search on its own: any collection of up to two contacts, any text
SearchInit ==
    /\ \E cs \in SearchCollections :
          /\ model = [ConstructedModel EXCEPT !.contacts = cs]
          /\ view = OnContactListChanged(NewView, cs)
          /\ table = cs
    /\ pending = <<>>
    /\ now = 0
    /\ issued = 0
    /\ last = Step("load")

SearchNext == InputSearchOf(AllSearchTexts)

SearchSpec == SearchInit /\ [][SearchNext]_vars

\* The server on its own, sent any request by any HTTP client: methods, paths
\* (as their segments: "/api/contacts/" ends in an empty one) and bodies
ApiMethods == {"GET", "POST", "PUT", "DELETE", "OPTIONS", "PATCH"}

ApiPaths ==
    { CollectionPath, ItemPath("1"), ItemPath("9"), ItemPath(""),
      <<"api", "contacts", "1", "9">>, <<"api">>, <<"api", "people">>, <<>> }

ApiBodies ==
    { EmptyBody,
      [wellFormed |-> TRUE, id |-> "9", name |-> Bo.name, email |-> Bo.email, phone |-> Bo.phone],
      [wellFormed |-> TRUE, id |-> "9", name |-> NoText, email |-> Bo.email, phone |-> Bo.phone],
      [wellFormed |-> FALSE, id |-> "", name |-> NoText, email |-> NoText, phone |-> NoText] }

ApiTables ==
    { <<>>, <<[id |-> "1", name |-> Ana.name, email |-> Ana.email, phone |-> Ana.phone]>> }

ApiInit ==
    /\ model = ConstructedModel
    /\ view = ConstructedView
    /\ pending = <<>>
    /\ table \in ApiTables
    /\ now = 0
    /\ issued = 0
    /\ last = Step("load")

\* the server handles one request; `pending` keeps it with its answer
ApiRequest ==
    \E method \in ApiMethods, path \in ApiPaths, body \in ApiBodies, err \in BOOLEAN :
        LET a == HandleRequest(method, path, body, table, err) IN
        /\ issued < MaxRequests
        /\ issued' = issued + 1
        /\ table' = a.rows
        /\ pending' = << [method |-> method, path |-> path, body |-> body,
                          stage |-> "answered", status |-> a.status, data |-> a.data] >>
        /\ last' = [Step("serve") EXCEPT !.status = a.status, !.err = err]
        /\ UNCHANGED <<model, view, now>>

ApiSpec == ApiInit /\ [][ApiRequest]_vars

\* ------------------------------------------------------------------ reading a step
\* the step resumes the Model operation suspended on request i
Resumes(i) ==
    /\ pending[i].stage = "answered"
    /\ last'.op = pending[i].op
    /\ pending' = RemoveAt(pending, i)

\* the step is the server answering request i
Serves(i) ==
    /\ pending[i].stage = "sent"
    /\ last'.op = "serve"
    /\ Len(pending') = Len(pending)
    /\ pending'[i].stage = "answered"

Mutating == {"add", "edit", "delete"}

Failed(status) == status < 200 \/ status > 299

IdsOf(contacts) == [k \in 1..Len(contacts) |-> contacts[k].id]

HasId(contacts, id) == \E k \in 1..Len(contacts) : contacts[k].id = id

\* ------------------------------------------------------------------ claims

\* C1: when the remote call of addContact, editContact or deleteContact fails
\* (network error or a non-OK response), the operation leaves the Model's
\* collection as it was and does not invoke the change callback (so nothing
\* is rendered).
C1_FailureLeavesCollection ==
    [][\A i \in 1..Len(pending) :
          (Resumes(i) /\ pending[i].op \in Mutating /\ Failed(pending[i].status))
          => /\ model'.contacts = model.contacts
             /\ last'.calls = 0
             /\ view' = view]_vars

\* a failed operation has resumed while the collection held a contact
C1_Witness ==
    /\ last.op \in Mutating
    /\ last.status \in {0, 404, 500}
    /\ model.contacts # <<>>

\* C2: a successful addContact makes the collection one longer, the new record
\* is the last one and carries the given name, email and phone, and its id is
\* not the id of any record the collection already held.
C2_AddAppendsUniqueId ==
    [][\A i \in 1..Len(pending) :
          (Resumes(i) /\ pending[i].op = "add" /\ ~Failed(pending[i].status))
          => LET r == pending[i] IN
             /\ Len(model'.contacts) = Len(model.contacts) + 1
             /\ SubSeq(model'.contacts, 1, Len(model.contacts)) = model.contacts
             /\ model'.contacts[Len(model'.contacts)] =
                    [id |-> r.id, name |-> r.name, email |-> r.email, phone |-> r.phone]
             /\ ~HasId(model.contacts, r.id)]_vars

\* C3: the ids of the records in the collection are pairwise distinct in every
\* reachable state, and no operation changes the id of a record that is
\* already in the collection.
C3_IdsDistinctAndKept ==
    [][/\ \A j, k \in 1..Len(model'.contacts) :
             j # k => model'.contacts[j].id # model'.contacts[k].id
       /\ \A i \in 1..Len(pending) :
             (Resumes(i) /\ pending[i].op \in Mutating)
             => \/ IdsOf(model'.contacts) = IdsOf(model.contacts)
                \/ IdsOf(model'.contacts) = Append(IdsOf(model.contacts), pending[i].id)
                \/ IdsOf(model'.contacts) =
                       SelectSeq(IdsOf(model.contacts), LAMBDA x : x # pending[i].id)]_vars

\* C4: a successful editContact(id, name, email, phone) leaves the collection's
\* length and order as they were; every record with that id keeps its id and
\* position and has the new name, email and phone; every other record is
\* unchanged.
C4_EditReplacesInPlace ==
    [][\A i \in 1..Len(pending) :
          (Resumes(i) /\ pending[i].op = "edit" /\ ~Failed(pending[i].status))
          => LET r == pending[i] IN
             /\ Len(model'.contacts) = Len(model.contacts)
             /\ \A k \in 1..Len(model.contacts) :
                   /\ model'.contacts[k].id = model.contacts[k].id
                   /\ model.contacts[k].id = r.id =>
                         /\ model'.contacts[k].name = r.name
                         /\ model'.contacts[k].email = r.email
                         /\ model'.contacts[k].phone = r.phone
                   /\ model.contacts[k].id # r.id =>
                         model'.contacts[k] = model.contacts[k]]_vars

\* an edit has succeeded on the first of two contacts and changed only it
C4_Witness ==
    /\ last.op = "edit"
    /\ last.status = 200
    /\ Len(model.contacts) = 2
    /\ model.contacts[1].id = last.id
    /\ model.contacts[1].name = Bo.name
    /\ model.contacts[2].id # last.id
    /\ model.contacts[2].name = Ana.name

\* C5: after a successful deleteContact(id) no record with that id is left in
\* the collection or in the server table, and the other records of the
\* collection remain, unmodified and in their order.
C5_DeleteRemovesEverywhere ==
    [][\A i \in 1..Len(pending) :
          (Resumes(i) /\ pending[i].op = "delete" /\ ~Failed(pending[i].status))
          => LET id == pending[i].id IN
             /\ ~HasId(model'.contacts, id)
             /\ ~HasId(table', id)
             /\ model'.contacts = SelectSeq(model.contacts, LAMBDA c : c.id # id)]_vars

\* C6: an edit or delete whose id matches no row of the table, once the
\* database has run its statement, is answered 404 and leaves the table as it
\* was; and the Model operation that gets the 404 leaves the collection as it
\* was.
C6_UnknownIdNotFound ==
    [][\A i \in 1..Len(pending) :
          /\ (Serves(i) /\ pending[i].op \in {"edit", "delete"}
                /\ ~HasId(table, pending[i].id) /\ ~last'.err)
             => (pending'[i].status = 404 /\ table' = table)
          /\ (Resumes(i) /\ pending[i].op \in {"edit", "delete"}
                /\ pending[i].status = 404)
             => model'.contacts = model.contacts]_vars

\* an edit of an id the table does not hold has been answered 404
C6_Witness ==
    /\ last.op = "serve"
    /\ last.req = "edit"
    /\ last.status = 404
    /\ ~last.err
    /\ ~HasId(table, last.id)

\* how many times record c occurs in sequence s
Count(s, c) == Cardinality({k \in 1..Len(s) : s[k] = c})

\* the two sequences hold the same records, each as often
SameRecords(s, t) ==
    /\ Len(s) = Len(t)
    /\ \A k \in 1..Len(s) : Count(s, s[k]) = Count(t, s[k])

\* the collection holds the ids of the table's rows and no others, each once:
\* what a client that has loaded the list, and lost track of no row, knows
KnowsTheRows ==
    /\ Len(model.contacts) = Len(table)
    /\ \A j, k \in 1..Len(table) : j # k => table[j].id # table[k].id
    /\ \A k \in 1..Len(table) : HasId(model.contacts, table[k].id)
    /\ \A k \in 1..Len(model.contacts) : HasId(table, model.contacts[k].id)

\* C7: with no request in flight, the records of the collection of a client
\* that knows the table's rows are exactly the rows of the table (same ids,
\* same field values), whatever adds, edits and deletes came before, also
\* ones fired before an earlier response had arrived.
C7_CacheMirrorsTable ==
    (pending = <<>> /\ KnowsTheRows) => SameRecords(model.contacts, table)

\* C8: when the page is constructed while the table holds contacts saved
\* earlier, the constructor has put the fetch of those contacts in flight.
C8_InitialLoadTriggered ==
    (last.op = "load" /\ table # <<>>)
    => \E i \in 1..Len(pending) : pending[i].op = "fetch"

\* C9: one change callback is registered; every successful add, edit or
\* delete invokes it exactly once, in the step that changes the collection,
\* and the View then shows the Model's full collection (or the empty state
\* when it is empty).
C9_CommitRendersCollection ==
    [][/\ model'.onContactListChanged = ControllerCallback
       /\ \A i \in 1..Len(pending) :
             (Resumes(i) /\ pending[i].op \in Mutating /\ ~Failed(pending[i].status))
             => /\ last'.calls = 1
                /\ view'.contactList = model'.contacts
                /\ view'.emptyHidden = (model'.contacts # <<>>)
                /\ view'.listHidden = (model'.contacts = <<>>)]_vars

\* an add has succeeded while a search was filtering the list, and the list
\* shows the whole collection, the new contact included, which the search
\* text does not match
C9_Witness ==
    /\ last.op = "add"
    /\ last.status = 201
    /\ last.calls = 1
    /\ view.searchInput = <<" ", "B", "@">>
    /\ Len(model.contacts) = 2
    /\ view.contactList = model.contacts
    /\ model.contacts[2].email = Ana.email

\* t occurs in s, letter case ignored
ContainsIgnoringCase(s, t) ==
    \E d \in 0..(Len(s) - Len(t)) :
        \A k \in 1..Len(t) : LowerChar(s[d + k]) = LowerChar(t[k])

\* t occurs in s as written
ContainsRaw(s, t) ==
    \E d \in 0..(Len(s) - Len(t)) : \A k \in 1..Len(t) : s[d + k] = t[k]

\* the contact is one a search for t is to show
Matches(c, t) ==
    \/ ContainsIgnoringCase(c.name, t)
    \/ ContainsIgnoringCase(c.email, t)
    \/ ContainsRaw(c.phone, t)

\* C10: a search renders exactly the contacts of the collection, in its
\* order, whose name or email contains the term whatever the letter case or
\* whose phone contains it as written (the empty state when there is none),
\* the term being what the handler is given for the text in the search box;
\* and it changes neither the collection nor the table and puts no request
\* in flight.
C10_SearchShowsMatches ==
    [][last'.op = "search"
       => LET t == SearchTerm(view'.searchInput)
              shown == SelectSeq(model.contacts, LAMBDA c : Matches(c, t))
          IN  /\ view'.contactList = shown
              /\ view'.emptyHidden = (shown # <<>>)
              /\ model' = model
              /\ table' = table
              /\ pending' = pending]_vars

\* a search has shown exactly the one contact of two whose email, and nothing
\* else of either, holds the term
C10_Witness ==
    /\ last.op = "search"
    /\ view.searchInput = <<" ", "B", "@">>
    /\ Len(model.contacts) = 2
    /\ model.contacts[1].email = <<"a", "@">>
    /\ model.contacts[2].email = <<"B", "@">>
    /\ view.contactList = <<model.contacts[2]>>

\* C11: after every render the empty state is shown exactly when the rendered
\* sequence is empty and the list hidden exactly then, and the rendered items
\* are the sequence given to the render and nothing else: the Model's
\* collection after a successful add, edit or delete, the filtered collection
\* after a search, the new Model's collection after a load.  In particular a
\* delete that empties the collection shows the empty state, and a successful
\* add then shows a non-empty list with the empty state hidden.
C11_RenderReplacesList ==
    [][/\ view'.emptyHidden = (view'.contactList # <<>>)
       /\ view'.listHidden = (view'.contactList = <<>>)
       /\ \A i \in 1..Len(pending) :
             (Resumes(i) /\ pending[i].op \in Mutating /\ ~Failed(pending[i].status))
             => /\ view'.contactList = model'.contacts
                /\ (pending[i].op = "delete" /\ model'.contacts = <<>>)
                      => (~view'.emptyHidden /\ view'.listHidden)
                /\ (pending[i].op = "add" /\ ~view.emptyHidden)
                      => (view'.emptyHidden /\ ~view'.listHidden
                            /\ Len(view'.contactList) >= 1)
       /\ last'.op = "search"
             => view'.contactList = SearchFilter(model'.contacts, SearchTerm(view'.searchInput))
       /\ last'.op = "load" => view'.contactList = model'.contacts]_vars

\* the delete of the only contact has succeeded and the empty state is shown
C11_Witness ==
    /\ last.op = "delete"
    /\ last.status = 200
    /\ last.calls = 1
    /\ model.contacts = <<>>
    /\ view.contactList = <<>>
    /\ ~view.emptyHidden
    /\ view.listHidden

\* C12: a save starts exactly one Model operation: editContact with the id in
\* the form's hidden field when that id is not empty, addContact when it is
\* empty; and the request it issues carries a name, an email and a phone that
\* are all non-empty (the View raises no save otherwise).
C12_SaveRoutedOnId ==
    [][(last'.op = "save" /\ pending' # pending)
       => LET r == pending'[Len(pending')] IN
          /\ pending' = Append(pending, r)
          /\ r.stage = "sent"
          /\ IF view.inputId # ""
             THEN r.op = "edit" /\ r.id = view.inputId
             ELSE r.op = "add"
          /\ r.name # NoText /\ r.email # NoText /\ r.phone # NoText
          /\ model' = model]_vars

\* a save of the form opened on a contact has started one editContact with
\* that contact's id
C12_Witness ==
    /\ last.op = "save"
    /\ last.req = "edit"
    /\ last.id = "1"
    /\ Len(pending) = 1
    /\ pending[1].op = "edit"
    /\ pending[1].id = "1"
    /\ pending[1].stage = "sent"
    /\ HasId(model.contacts, "1")

\* C13: a DELETE request is put in flight only by a click on a delete button
\* whose prompt the user has confirmed, and it is the delete of the clicked
\* contact; when the user declines, no request is issued and the collection,
\* the table and the rendered list stay as they were.
C13_DeleteOnlyWhenConfirmed ==
    [][/\ (Len(pending') > Len(pending) /\ pending'[Len(pending')].op = "delete")
          => /\ last'.op = "clickDelete"
             /\ last'.confirmed
             /\ pending' = Append(pending, pending'[Len(pending')])
             /\ pending'[Len(pending')].id = last'.id
             /\ HasId(view.contactList, last'.id)
       /\ (last' # last /\ last'.op = "clickDelete" /\ ~last'.confirmed)
          => /\ pending' = pending
             /\ model' = model
             /\ table' = table
             /\ view' = view]_vars

\* the user has declined the prompt for a rendered contact: nothing is in
\* flight and the contact is still in the collection, the table and the list
C13_Witness ==
    /\ last.op = "clickDelete"
    /\ ~last.confirmed
    /\ pending = <<>>
    /\ HasId(model.contacts, last.id)
    /\ HasId(table, last.id)
    /\ HasId(view.contactList, last.id)

\* the path is /api/contacts/{id} with an id
ContactPath(path) ==
    Len(path) = 3 /\ path[1] = "api" /\ path[2] = "contacts" /\ path[3] # ""

\* the path begins with /api/contacts/
UnderContacts(path) == Len(path) >= 3 /\ path[1] = "api" /\ path[2] = "contacts"

\* the routes the API lists
ListedRoute(method, path) ==
    \/ method = "OPTIONS"
    \/ path = CollectionPath /\ method \in {"GET", "POST"}
    \/ ContactPath(path) /\ method \in {"PUT", "DELETE"}

\* C14, as stated: every request that is not one of the listed routes is
\* answered 404, an unlisted method on a listed path included.
C14_UnlistedIsNotFound ==
    [][LET r == pending'[1] IN
       ~ListedRoute(r.method, r.path) => r.status = 404]_vars

\* C14, amended: a request other than OPTIONS is answered 404 when its path is
\* neither /api/contacts nor begins with /api/contacts/; an unlisted method on
\* /api/contacts or on a path under /api/contacts/ that ends in an id is
\* answered 405, and a path under /api/contacts/ that ends in no id 400; in
\* all these cases the table is left as it was.
C14_UnlistedPathNotFoundMethodNotAllowed ==
    [][LET r == pending'[1] IN
       r.method # "OPTIONS" =>
          /\ (r.path # CollectionPath /\ ~UnderContacts(r.path))
                => (r.status = 404 /\ table' = table)
          /\ (r.path = CollectionPath /\ r.method \notin {"GET", "POST"})
                => (r.status = 405 /\ table' = table)
          /\ (UnderContacts(r.path) /\ r.path[Len(r.path)] # ""
                /\ r.method \notin {"PUT", "DELETE"})
                => (r.status = 405 /\ table' = table)
          /\ (UnderContacts(r.path) /\ r.path[Len(r.path)] = "")
                => (r.status = 400 /\ table' = table)]_vars

\* a PUT on /api/contacts with a complete body has been answered 405 and the
\* table still holds its row
C14_Witness ==
    /\ pending # <<>>
    /\ pending[1].method = "PUT"
    /\ pending[1].path = CollectionPath
    /\ pending[1].body.name # NoText
    /\ pending[1].status = 405
    /\ table # <<>>

\* the request is one whose route reads the body
ReadsBody(method, path) ==
    \/ path = CollectionPath /\ method = "POST"
    \/ UnderContacts(path) /\ path[Len(path)] # "" /\ method = "PUT"

\* C15, as stated: every request other than OPTIONS whose body is malformed
\* JSON is answered 400 and leaves the table as it was, whatever its method
\* and path.
C15_MalformedBodyAlwaysRejected ==
    [][LET r == pending'[1] IN
       (r.method # "OPTIONS" /\ ~r.body.wellFormed)
       => (r.status = 400 /\ table' = table)]_vars

\* C15, amended: the body is read and parsed inside the POST /api/contacts and
\* PUT /api/contacts/{id} routes only, whole: there a body that is malformed
\* JSON is answered 400 and the table is left as it was.  Every other request
\* is routed and answered without its body being looked at: with a malformed
\* body it gets the answer, and has the effect on the table, that it has with
\* no body at all.
C15_MalformedBodyRejectedWhereRead ==
    [][LET r == pending'[1] IN
       ~r.body.wellFormed =>
          /\ ReadsBody(r.method, r.path) => (r.status = 400 /\ table' = table)
          /\ ~ReadsBody(r.method, r.path) =>
                LET a == HandleRequest(r.method, r.path, EmptyBody, table, last'.err) IN
                /\ r.status = a.status
                /\ table' = a.rows
                /\ (r.method = "DELETE" /\ ContactPath(r.path) /\ ~last'.err
                      /\ HasId(table, r.path[3]))
                      => (r.status = 200 /\ ~HasId(table', r.path[3]))]_vars

\* a POST on /api/contacts with a malformed body has been answered 400 and the
\* table still holds only the row it held
C15_Witness ==
    /\ pending # <<>>
    /\ pending[1].method = "POST"
    /\ pending[1].path = CollectionPath
    /\ ~pending[1].body.wellFormed
    /\ pending[1].status = 400
    /\ Len(table) = 1

\* C16: a save or a confirmed delete made while requests are in flight puts
\* its request in flight in that same step, behind no other (whatever is in
\* flight, a save can be made and its request is sent at once); and the
\* continuation of any answered request can run next, whichever requests
\* issued before it are still in flight, so responses are applied in the
\* order they arrive, not the order of issue.
C16_IssuedAtOnceAppliedOnArrival ==
    /\ \A i \in 1..Len(pending) : pending[i].stage \in {"sent", "answered"}
    /\ issued < MaxRequests
          => ENABLED (/\ SubmitForm
                      /\ Len(pending') = Len(pending) + 1
                      /\ SubSeq(pending', 1, Len(pending)) = pending
                      /\ pending'[Len(pending')].stage = "sent")
    /\ \A i \in 1..Len(pending) :
          (pending[i].stage = "answered" /\ pending[i].op \in Mutating)
          => ENABLED (/\ AddContactResume \/ EditContactResume \/ DeleteContactResume
                      /\ last'.op = pending[i].op
                      /\ pending' = RemoveAt(pending, i))

\* the add issued second (id "2") has been applied to the collection while
\* the add issued first (id "1"), answered 201 as well, still waits
C16_Witness ==
    /\ last.op = "add"
    /\ last.id = "2"
    /\ last.status = 201
    /\ Len(pending) = 1
    /\ pending[1].op = "add"
    /\ pending[1].id = "1"
    /\ pending[1].status = 201
    /\ HasId(model.contacts, "2")
    /\ ~HasId(model.contacts, "1")

\* C17: in every state where the search box is empty and no request is in
\* flight, the rendered list is the Model's whole collection: a save clears
\* the search box and the full list is shown again, also when the save's
\* remote call failed.
C17_EmptySearchShowsAll ==
    (view.searchInput = NoText /\ pending = <<>>)
    => view.contactList = model.contacts

====
